---- MODULE Spec2Model ----
(***************************************************************************)
(* The quiz chain controller (QuizSolver.solve_quiz_chain) and its         *)
(* per-quiz pipeline (QuizSolver.solve_single_quiz) of src/quiz_solver.py. *)
(*                                                                         *)
(* Encoding of Python values                                               *)
(*   - quiz URLs (current_url, next_url) are strings; Python None is the   *)
(*     reserved string None, the empty string is "".                       *)
(*   - free text (the question text, a submit URL, analysis_required) is a *)
(*     sequence of tokens; Python None in such a field is the reserved     *)
(*     one-token text NoneT, the empty string is << >>.                    *)
(*   - a dict is a function whose domain is its set of keys.               *)
(*   - an exception is the name of its class; str(e) is that name.         *)
(* Time is counted in minutes.                                             *)
(*                                                                         *)
(* Specifications                                                          *)
(*   Spec          one chain run, collaborator call by collaborator call   *)
(*   SpecLive      one chain run whose collaborators all come back         *)
(*   SpecEndpoint  receive_quiz of src/main.py and its background tasks    *)
(*   SpecRuns      two chain runs side by side on the shared browser       *)
(*   SpecExtract   extract_answer on its own, over all short responses     *)
(*   SpecQuestion  extract_question_from_html on its own, over all short   *)
(*                 markups                                                 *)
(***************************************************************************)
EXTENDS Integers, Sequences, FiniteSets, TLC

\* ---------------------------------------------------------------- bounds
\* the clock stops advancing at MaxClock minutes
MaxClock == 5
\* a chain starts at most MaxIter iterations
MaxIter == 3
\* under fairness the clock ends a chain before it starts MaxLiveIter
\* iterations
MaxLiveIter == 6
\* the endpoint receives at most MaxRequests requests
MaxRequests == 2
\* a response handed to extract_answer alone has at most MaxRespLen segments
MaxRespLen == 5
\* the longest markup given to extract_question_from_html, in runs
MaxMarkupLen == 4
\* with two runs side by side the clock stops at MaxRunClock minutes and a
\* run starts at most MaxRunIter iterations
MaxRunClock == 4
MaxRunIter == 2

\* ------------------------------------------------------------- constants
\* max_time = timedelta(minutes=3)
max_time == 3

None == "None"
NoneT == <<"None">>

\* Python truthiness of an Optional[str] held as a string
Truthy(v) == v # None /\ v # ""
\* Python truthiness of an Optional[str] held as a text
TruthyT(t) == t # NoneT /\ t # << >>

\* dict.get(key, default)
Get(d, key, default) == IF key \in DOMAIN d THEN d[key] ELSE default

\* ------------------------------------------------------------------ text
\* Tokens of a question text: a URL scheme (http:// or https://), a run of
\* one or more characters of the class [^\s<>"] holding no "/submit", the
\* literal "/submit", white space, and the tags that a prefix of the raw
\* markup shows.
TextTokens ==
  {"http://", "a", "/submit", " ", "<div id=result>", "<div class=question>",
   "<body>", "</div>", "</body>", "atob('')"}

\* the question texts of the pages: without a URL, with a submit URL alone
\* or inside other text, with a URL that misses the character between
\* scheme and "/submit", with white space before "/submit", with a URL
\* that has no "/submit"
Texts ==
  {<< >>, <<"a">>,
   <<"http://", "a", "/submit">>,
   <<"a", " ", "http://", "a", "/submit", "a", " ", "a">>,
   <<"http://", "/submit">>,
   <<"http://", "a", " ", "/submit">>,
   <<"http://", "a">>,
   <<"http://", "/submit", " ", "http://", "a", "/submit", "/submit">>}

\* [^\s<>"] : every token but white space and tags lies in the class
InUrlClass(tok) == tok \notin {" ", "<div id=result>", "<div class=question>", "<body>",
                              "</div>", "</body>"}

\* the last index of the maximal run of class tokens that starts at i
RunEnd(text, i) ==
  LET stops == {k \in i..Len(text) : ~InUrlClass(text[k])}
  IN  IF stops = {} THEN Len(text)
      ELSE (CHOOSE k \in stops : \A m \in stops : k <= m) - 1

\* https?://[^\s<>"]+/submit[^\s<>"]*  matches at i: the scheme, at least one
\* class character, "/submit", then the rest of the run (both quantifiers
\* are greedy, so a match always covers the run to its end)
SubmitMatchAt(text, i) ==
  /\ text[i] = "http://"
  /\ \E j \in (i + 2)..RunEnd(text, i) : text[j] = "/submit"

\* re.findall(url_pattern, question_text): the start of the leftmost match,
\* 0 when there is none
FirstSubmitMatch(text) ==
  LET starts == {i \in 1..Len(text) : SubmitMatchAt(text, i)}
  IN  IF starts = {} THEN 0
      ELSE CHOOSE i \in starts : \A m \in starts : i <= m

\* urls[0]
FirstSubmitUrl(text) ==
  LET i == FirstSubmitMatch(text)
  IN  SubSeq(text, i, RunEnd(text, i))

\* ------------------------------------------------ reasoning-service text
\* A response of the reasoning service is a sequence of segments:
\*   "prose"  letters other than those of "true" and "yes", in any case
\*   "obj"    the text of one well-formed JSON object, d its value
\*   "lbrace" a "{" that opens no well-formed object
\*   "rbrace" a "}" that closes no well-formed object
\*   "scalar" the text of a JSON value that is no object (null, "x", [1])
\*   "digit"  one decimal digit, n its value
\*   "dot"    the character "."
\*   "minus"  the character "-"
\*   "space"  white space
\*   "t" "r" "u" "e" "y" "s" "T"   one letter each
EmptyDict == [k \in {} |-> None]

Seg(kind) == [k |-> kind, d |-> EmptyDict, n |-> 0]
Obj(dict) == [k |-> "obj", d |-> dict, n |-> 0]
Digit(value) == [k |-> "digit", d |-> EmptyDict, n |-> value]

HasOpen(seg) == seg.k \in {"obj", "lbrace"}
HasClose(seg) == seg.k \in {"obj", "rbrace"}

Min(S) == CHOOSE x \in S : \A y \in S : x <= y
Max(S) == CHOOSE x \in S : \A y \in S : x >= y

\* re.search(r'\{.*\}', response, re.DOTALL): << first, last >>, the segments
\* of the leftmost "{" and of the last "}" of the response (".*" is greedy
\* and DOTALL lets it cross lines); << 0, 0 >> when nothing matches
BraceSearch(resp) ==
  LET opens  == {i \in 1..Len(resp) : HasOpen(resp[i])}
      closes == {i \in 1..Len(resp) : HasClose(resp[i])}
  IN  IF opens = {} \/ closes = {} THEN <<0, 0>>
      ELSE IF Max(closes) < Min(opens) THEN <<0, 0>>
      ELSE <<Min(opens), Max(closes)>>

\* the segments of kind kind, from place i on, run to this place (i - 1
\* when the segment at i is of another kind)
KindRunEnd(resp, i, kind) ==
  LET stops == {j \in i..Len(resp) : resp[j].k # kind}
  IN  IF stops = {} THEN Len(resp) ELSE Min(stops) - 1

\* str.strip(): the text without its leading and trailing white space
Strip(resp) ==
  LET inked == {i \in 1..Len(resp) : resp[i].k # "space"}
  IN  IF inked = {} THEN << >> ELSE SubSeq(resp, Min(inked), Max(inked))

\* the JSON grammar of a number (without exponent): an optional "-", then
\* 0 or digits that do not begin with 0, then optionally "." and digits
IsJsonNumber(segs) ==
  LET first == IF segs # << >> /\ segs[1].k = "minus" THEN 2 ELSE 1
      whole == KindRunEnd(segs, first, "digit")
  IN  /\ whole >= first
      /\ (whole > first => segs[first].n # 0)
      /\ \/ whole = Len(segs)
         \/ /\ whole + 2 <= Len(segs)
            /\ segs[whole + 1].k = "dot"
            /\ KindRunEnd(segs, whole + 2, "digit") = Len(segs)

\* json.loads(text): ok is FALSE when it raises JSONDecodeError; a text
\* parses when, white space around it aside, it is exactly one JSON value
JsonLoads(segs) ==
  LET value == Strip(segs)
  IN  IF Len(value) = 1 /\ value[1].k = "obj"
        THEN [ok |-> TRUE, isdict |-> TRUE, d |-> value[1].d]
      ELSE IF (Len(value) = 1 /\ value[1].k = "scalar") \/ IsJsonNumber(value)
        THEN [ok |-> TRUE, isdict |-> FALSE, d |-> EmptyDict]
      ELSE [ok |-> FALSE, isdict |-> FALSE, d |-> EmptyDict]

\* --------------------------------------------------------- LLMService.chat
\* An outcome of LLMService.chat: it re-raises what the client raises
\* ("raise", exc the class), or returns message.content, which is a string
\* ("text") or None ("none").
ChatRaise(e) == [kind |-> "raise", exc |-> e, text |-> << >>]
ChatNone == [kind |-> "none", exc |-> None, text |-> << >>]
ChatText(resp) == [kind |-> "text", exc |-> None, text |-> resp]

\* --------------------------------------------------------- parse_question
\* the "safe default" of parse_question
DefaultParsed(question_text) ==
  [task_type |-> "unknown", files_to_download |-> << >>,
   submit_url |-> NoneT, answer_format |-> "string",
   analysis_required |-> question_text, expected_answer_key |-> "answer"]

Returned(isdict, dict) == [raised |-> FALSE, exc |-> None, isdict |-> isdict, d |-> dict]
Raised(e) == [raised |-> TRUE, exc |-> e, isdict |-> FALSE, d |-> EmptyDict]

\* the try block of parse_question on the text the service returned
ParseResponse(question_text, resp) ==
  LET m      == BraceSearch(resp)
      loaded == IF m[1] # 0 THEN JsonLoads(SubSeq(resp, m[1], m[2]))
                ELSE JsonLoads(resp)
  IN  IF loaded.ok THEN Returned(loaded.isdict, loaded.d)
      ELSE Returned(TRUE, DefaultParsed(question_text))

\* parse_question: the chat call stands before the try block, so what it
\* raises leaves parse_question; a None content makes re.search raise
\* TypeError inside the try block
parse_question(question_text, chat) ==
  IF chat.kind = "raise" THEN Raised(chat.exc)
  ELSE IF chat.kind = "none" THEN Returned(TRUE, DefaultParsed(question_text))
  ELSE ParseResponse(question_text, chat.text)

\* ------------------------------------------- extract_question_from_html
\* The rendered markup, and any text recovered from it, is a sequence of
\* runs of characters: k the kind of the run, c the token it shows, n the
\* number of its characters, p the quoted literal of a decode marker.
\*   "text"      characters outside tags, no white space
\*   "ws"        white space
\*   "result"    the tag <div id="result">
\*   "question"  the tag <div class="question">
\*   "body"      the tag <body>
\*   "enddiv"    the tag </div>
\*   "endbody"   the tag </body>
\*   "atob"      one match of atob\(['"]([^'"]+)['"]\), p its group
\* The quoted literal of a marker is a sequence of pieces:
\*   "quad"    base64 quanta that encode the run of n characters of token c
\*   "junk"    n characters outside the base64 alphabet
\*   "short"   a last quantum cut short, without its padding
\*   "nonutf"  a quantum whose bytes are no UTF-8 text
\* for "junk", "short" and "nonutf" n is the number of characters of the
\* piece itself.
Run(kind, c, n) == [k |-> kind, c |-> c, n |-> n, p |-> << >>]
Piece(kind, c, n) == [k |-> kind, c |-> c, n |-> n]

\* the characters a literal takes in the markup: a quantum has four for
\* every three characters it encodes
RECURSIVE LiteralLen(_)
LiteralLen(literal) ==
  IF literal = << >> THEN 0
  ELSE (IF Head(literal).k = "quad" THEN 4 * ((Head(literal).n + 2) \div 3)
        ELSE Head(literal).n)
         + LiteralLen(Tail(literal))

\* atob('...') around the literal
Marker(literal) ==
  [k |-> "atob", c |-> "atob('')", n |-> 8 + LiteralLen(literal), p |-> literal]

\* len(s)
RECURSIVE Chars(_)
Chars(s) == IF s = << >> THEN 0 ELSE Head(s).n + Chars(Tail(s))

\* s[:limit]
RECURSIVE Prefix(_, _)
Prefix(s, limit) ==
  IF s = << >> \/ limit <= 0 THEN << >>
  ELSE IF Head(s).n <= limit
    THEN <<Head(s)>> \o Prefix(Tail(s), limit - Head(s).n)
  ELSE <<[Head(s) EXCEPT !.n = limit]>>

\* re.findall(atob_pattern, html): the groups of the matches, left to right
RECURSIVE FindAllAtob(_)
FindAllAtob(html) ==
  IF html = << >> THEN << >>
  ELSE IF Head(html).k = "atob" THEN <<Head(html).p>> \o FindAllAtob(Tail(html))
  ELSE FindAllAtob(Tail(html))

\* base64.b64decode(literal): characters outside the alphabet are dropped
\* before the padding is looked at; the bytes, or binascii.Error
b64decode(literal) ==
  LET data == SelectSeq(literal, LAMBDA piece : piece.k # "junk")
  IN  IF \E i \in DOMAIN data : data[i].k = "short"
        THEN [exc |-> "binascii.Error", bytes |-> << >>]
      ELSE [exc |-> None, bytes |-> data]

\* bytes.decode('utf-8'): the text, or UnicodeDecodeError
decode(bytes) ==
  IF \E i \in DOMAIN bytes : bytes[i].k = "nonutf"
    THEN [exc |-> "UnicodeDecodeError", text |-> << >>]
  ELSE [exc |-> None, text |-> [i \in DOMAIN bytes |-> Run("text", bytes[i].c, bytes[i].n)]]

\* base64.b64decode(match).decode('utf-8') inside try/except Exception
Decoded(literal) ==
  LET raw == b64decode(literal)
  IN  IF raw.exc # None THEN [exc |-> raw.exc, text |-> << >>]
      ELSE decode(raw.bytes)

\* text_patterns, by the kind of the opening tag, and the closing tag of
\* each; every pattern ends in a lazy (.*?) before its closing tag
text_patterns == <<"result", "question", "body">>
Closes(pattern) == IF pattern = "body" THEN "endbody" ELSE "enddiv"

\* re.search(pattern, html, re.DOTALL | re.IGNORECASE): << i, j >>, the
\* place of the leftmost opening tag that a closing tag follows and of the
\* first closing tag after it; << 0, 0 >> when there is no match
Search(pattern, html) ==
  LET closers(i) == {j \in (i + 1)..Len(html) : html[j].k = Closes(pattern)}
      starts     == {i \in 1..Len(html) : html[i].k = pattern /\ closers(i) # {}}
  IN  IF starts = {} THEN <<0, 0>>
      ELSE <<Min(starts), Min(closers(Min(starts)))>>

\* what re.sub(r'<[^>]+>', ' ', ...) leaves as white space: the tags and
\* the white space that was there
IsBlank(run) == run.k \notin {"text", "atob"}

\* re.sub(r'<[^>]+>', ' ', group), re.sub(r'\s+', ' ', text).strip(): the
\* runs of the group that are no tags, one space where tags or white space
\* lay between two of them; gap says that a blank was passed since the
\* last run kept, any says that a run was kept
RECURSIVE Clean(_, _, _)
Clean(group, any, gap) ==
  IF group = << >> THEN << >>
  ELSE IF IsBlank(Head(group)) THEN Clean(Tail(group), any, TRUE)
  ELSE (IF any /\ gap THEN <<Run("ws", " ", 1)>> ELSE << >>)
         \o <<Head(group)>> \o Clean(Tail(group), TRUE, FALSE)

\* the smallest length a recovered text must exceed, the length of the
\* fallback prefix
min_text_len == 10
prefix_len == 2000

\* the loop over text_patterns from pattern number k on, and the fallback
RECURSIVE ContainerText(_, _)
ContainerText(html, k) ==
  IF k > Len(text_patterns) THEN Prefix(html, prefix_len)
  ELSE LET match == Search(text_patterns[k], html)
           text  == Clean(SubSeq(html, match[1] + 1, match[2] - 1), FALSE, FALSE)
       IN  IF match # <<0, 0>> /\ Chars(text) > min_text_len THEN text
           ELSE ContainerText(html, k + 1)

FirstMatch_Last(matches) == matches[Len(matches)]

\* matches[0]
FirstMatch(matches) == matches[1]

extract_question_from_html(html) ==
  LET matches == FindAllAtob(html)
  IN  IF matches # << >> /\ Decoded(FirstMatch(matches)).exc = None
        THEN Decoded(FirstMatch(matches)).text
      ELSE ContainerText(html, 1)

\* the tokens of a text, for the steps that read no lengths
Tokens(text) == [i \in DOMAIN text |-> text[i].c]

\* --------------------------------------------------------- extract_answer
\* An Answer: t its Python type; an int has the value n, a float the value
\* n / 10^e with e as small as can be; b is the value of a bool, d of a
\* dict, s of a str
AnInt(v) == [t |-> "int", n |-> v, e |-> 0, b |-> FALSE, d |-> EmptyDict, s |-> << >>]
AFloat(v, exp) == [t |-> "float", n |-> v, e |-> exp, b |-> FALSE, d |-> EmptyDict, s |-> << >>]
ABool(v) == [t |-> "bool", n |-> 0, e |-> 0, b |-> v, d |-> EmptyDict, s |-> << >>]
ADict(v) == [t |-> "dict", n |-> 0, e |-> 0, b |-> FALSE, d |-> v, s |-> << >>]
AStr(v) == [t |-> "str", n |-> 0, e |-> 0, b |-> FALSE, d |-> EmptyDict, s |-> v]
NoAnswer == [t |-> "unset", n |-> 0, e |-> 0, b |-> FALSE, d |-> EmptyDict, s |-> << >>]

\* -?\d+\.?\d* tried at place i: the place where the match ends, 0 when
\* there is no match at i. The optional "-" is taken when a digit follows
\* it, one or more digits are taken, then a "." if one stands there, then
\* the digits after it (every quantifier is greedy and the rest can match
\* nothing, so nothing is ever given back).
NumberMatchEnd(resp, i) ==
  LET first   == IF resp[i].k = "minus" THEN i + 1 ELSE i
      whole   == IF first <= Len(resp) THEN KindRunEnd(resp, first, "digit") ELSE 0
      has_dot == whole < Len(resp) /\ resp[whole + 1].k = "dot"
  IN  IF whole < first THEN 0
      ELSE IF ~has_dot THEN whole
      ELSE IF whole + 2 <= Len(resp) THEN KindRunEnd(resp, whole + 2, "digit")
      ELSE whole + 1

\* re.findall(r'-?\d+\.?\d*', response) from place pos on: the matches from
\* left to right, none overlapping another, each as << start, end >>
RECURSIVE FindAllNumbers(_, _)
FindAllNumbers(resp, pos) ==
  LET starts == {i \in pos..Len(resp) : NumberMatchEnd(resp, i) # 0}
  IN  IF starts = {} THEN << >>
      ELSE LET i == Min(starts)
           IN  <<<<i, NumberMatchEnd(resp, i)>>>>
                 \o FindAllNumbers(resp, NumberMatchEnd(resp, i) + 1)

Numbers(resp) == FindAllNumbers(resp, 1)

\* the value of a run of digits
RECURSIVE DigitsValue(_)
DigitsValue(digits) ==
  IF digits = << >> THEN 0
  ELSE 10 * DigitsValue(SubSeq(digits, 1, Len(digits) - 1)) + digits[Len(digits)].n

IsDigit(seg) == seg.k = "digit"

\* int(num)
IntOf(num) ==
  IF num[1].k = "minus" THEN 0 - DigitsValue(SelectSeq(num, IsDigit))
  ELSE DigitsValue(SelectSeq(num, IsDigit))

\* a run of digits without its trailing zeros
RECURSIVE DropTrailingZeros(_)
DropTrailingZeros(digits) ==
  IF digits # << >> /\ digits[Len(digits)].n = 0
    THEN DropTrailingZeros(SubSeq(digits, 1, Len(digits) - 1))
  ELSE digits

\* float(num), for a num that holds a ".": << n, e >> with value n / 10^e
FloatOf(num) ==
  LET dot      == CHOOSE i \in 1..Len(num) : num[i].k = "dot"
      fraction == DropTrailingZeros(SubSeq(num, dot + 1, Len(num)))
      digits   == SelectSeq(SubSeq(num, 1, dot - 1), IsDigit) \o fraction
  IN  <<IF num[1].k = "minus" THEN 0 - DigitsValue(digits) ELSE DigitsValue(digits),
        Len(fraction)>>

\* the number rule that takes the first numeric token
NumberRule_First(resp) ==
  LET m   == Numbers(resp)[1]
      num == SubSeq(resp, m[1], m[2])
  IN  IF \E i \in 1..Len(num) : num[i].k = "dot"
        THEN AFloat(FloatOf(num)[1], FloatOf(num)[2])
      ELSE AnInt(IntOf(num))

\* lines 158-162, numbers found: the last one, a float when it holds a "."
NumberRule(resp) ==
  LET m   == Numbers(resp)[Len(Numbers(resp))]
      num == SubSeq(resp, m[1], m[2])
  IN  IF \E i \in 1..Len(num) : num[i].k = "dot"
        THEN AFloat(FloatOf(num)[1], FloatOf(num)[2])
      ELSE AnInt(IntOf(num))

\* str.lower(): the text with its upper-case letters in lower case
Lower(resp) ==
  [i \in 1..Len(resp) |-> IF resp[i].k = "T" THEN [resp[i] EXCEPT !.k = "t"] ELSE resp[i]]

\* Contains that looks at the start of the text only
Contains_AtStart(resp, word) ==
  /\ Len(resp) >= Len(word)
  /\ \A j \in 1..Len(word) : resp[j].k = word[j]

\* word in text, word a sequence of letters
Contains(resp, word) ==
  \E i \in 1..(Len(resp) - Len(word) + 1) :
    \A j \in 1..Len(word) : resp[i + j - 1].k = word[j]

\* the default rule: response.strip()
StripRule(resp) == AStr(Strip(resp))

\* extract_answer that returns the text whatever the format
extract_answer_AsText(resp, answer_format) == StripRule(resp)

extract_answer(resp, answer_format) ==
  IF answer_format = "number" THEN
    IF Numbers(resp) # << >> THEN NumberRule(resp)
    ELSE StripRule(resp)
  ELSE IF answer_format = "boolean" THEN
    ABool(Contains(Lower(resp), <<"t", "r", "u", "e">>)
            \/ Contains(Lower(resp), <<"y", "e", "s">>))
  ELSE IF answer_format = "json" THEN
    LET m == BraceSearch(resp)
    IN  IF m[1] # 0 /\ JsonLoads(SubSeq(resp, m[1], m[2])).ok
          THEN ADict(JsonLoads(SubSeq(resp, m[1], m[2])).d)
        ELSE StripRule(resp)
  ELSE StripRule(resp)

\* ------------------------------------- solve_single_quiz, submit target
\* ResolveSubmitUrl with a default target in place of the failure
ResolveSubmitUrl_DefaultTarget(d, question_text) ==
  IF TruthyT(Get(d, "submit_url", NoneT)) THEN Get(d, "submit_url", NoneT)
  ELSE IF FirstSubmitMatch(question_text) # 0 THEN FirstSubmitUrl(question_text)
  ELSE <<"http://", "a", "/submit">>

\* lines 225-234: the submit URL of the iteration, NoneT when neither the
\* ParsedQuestion nor the question text gives one
ResolveSubmitUrl(d, question_text) ==
  IF TruthyT(Get(d, "submit_url", NoneT)) THEN Get(d, "submit_url", NoneT)
  ELSE IF FirstSubmitMatch(question_text) # 0 THEN FirstSubmitUrl(question_text)
  ELSE NoneT

\* lines 239-249: the result tuple made of the judge's response
Tuple(success, next_url, error) ==
  [success |-> success, next_url |-> next_url, error |-> error]

VerdictTuple(judge) ==
  IF Get(judge, "correct", FALSE)
    THEN Tuple(TRUE, Get(judge, "url", None), None)
  ELSE Tuple(FALSE, Get(judge, "url", None), Get(judge, "reason", None))

\* ------------------------------------------------------------ submit_answer
\* the configuration read from the environment
SECRET_KEY == "SECRET"
STUDENT_EMAIL == "EMAIL"

\* lines 18-19: the identity the solver was constructed with
email == STUDENT_EMAIL
secret == SECRET_KEY

\* a value of the JSON body: one of the solver's strings (id) or the Answer
JStr(x) == [kind |-> "str", id |-> x, a |-> NoAnswer]
JAnswer(a) == [kind |-> "answer", id |-> None, a |-> a]

\* lines 183-188: the dict literal; a key written twice keeps the value
\* written last, and answer_key is written last
Payload(url, answer_key, a) ==
  (answer_key :> JAnswer(a))
    @@ [email |-> JStr(email), secret |-> JStr(secret), url |-> JStr(url)]

\* what session.post and response.json() raise: a transport failure, a
\* timeout, a body that is no JSON
SubmitErrors == {"ClientError", "TimeoutError", "ContentTypeError"}

\* lines 198-200: the dict submit_answer returns from its handler
SubmitErrorDict(e) == [correct |-> FALSE, error |-> e]

\* ----------------------------------------------------------- solve_question
\* how DataProcessor.download_file ends: it returns the file's data, or
\* raises what session.get or response.read() raise
DownloadOutcomes == {"ok", "ClientError", "TimeoutError"}

\* DownloadCaught for a loop without the try of line 124
DownloadCaught_Nothing(e) == FALSE

\* line 128: except Exception
DownloadCaught(e) == e \in {"ClientError", "TimeoutError"}

\* the classes of the exceptions the pipeline's steps raise; all of them
\* derive from Exception
ExceptionClasses == {"PlaywrightError", "APIError", "AttributeError", "TypeError", "ClientError"}

\* Absorbs with a handler for the transport errors only
Absorbs_TransportOnly(e) == e \in {"PlaywrightError", "ClientError"}

\* line 251: except Exception
Absorbs(e) == e \in ExceptionClasses

\* ------------------------------------------- solve_quiz_chain, decisions
\* a time check that lets one more unit of time pass
TimeExceeded_Late(el) == el > max_time + 1

\* line 265
TimeExceeded(el) == el > max_time

\* ChainStep that stops at every correct verdict
ChainStep_StopOnCorrect(success, next_url, el) ==
  IF success THEN "SUCCEEDED"
  ELSE IF Truthy(next_url) /\ el < max_time THEN "advance"
  ELSE "FAILED"

\* ChainStep that stops at every incorrect verdict
ChainStep_HaltOnWrong(success, next_url, el) ==
  IF success /\ Truthy(next_url) THEN "advance"
  ELSE IF success THEN "SUCCEEDED"
  ELSE "FAILED"

\* ChainStep whose last branch has lost its break
ChainStep_NoBreak(success, next_url, el) ==
  IF success /\ ~Truthy(next_url) THEN "SUCCEEDED"
  ELSE "advance"

\* lines 273-286: what the loop does with the result of an iteration, given
\* the elapsed time it computed at the top of that iteration
ChainStep(success, next_url, el) ==
  IF success /\ Truthy(next_url) THEN "advance"
  ELSE IF success /\ ~Truthy(next_url) THEN "SUCCEEDED"
  ELSE IF Truthy(next_url) /\ el < max_time THEN "advance"
  ELSE "FAILED"

\* ---------------------------------------------------------------- inputs
\* the number of characters of the run that shows a token
TokenLen(tok) ==
  CASE tok = " " -> 1
    [] tok \in {"http://", "/submit"} -> 7
    [] OTHER -> 11

\* a text in the markup, token by token, and in a marker's literal
Written(t) ==
  [i \in DOMAIN t |->
     IF t[i] = " " THEN Run("ws", " ", 1) ELSE Run("text", t[i], TokenLen(t[i]))]
Encoded(t) == [i \in DOMAIN t |-> Piece("quad", t[i], TokenLen(t[i]))]

\* <div id="result">t</div>
InResult(t) ==
  <<Run("result", "<div id=result>", 17)>> \o Written(t)
    \o <<Run("enddiv", "</div>", 6)>>

\* what the page renderer may return: pages without the decode marker that
\* show a text in the result container, a page whose marker decodes to
\* nothing, pages whose marker wraps a question with or without a submit
\* URL, a page whose marker does not decode
Htmls ==
  {InResult(t) : t \in Texts \ {<< >>}}
    \cup {<<Marker(<<Piece("junk", "!", 3)>>)>>}
    \cup {<<Marker(Encoded(t))>> \o InResult(<<"a">>) :
            t \in {<<"a">>, <<"http://", "a", "/submit">>}}
    \cup {<<Marker(<<Piece("short", "a", 1)>>)>> \o InResult(<<"a">>)}

SubmitUrlT == <<"http://", "a", "/submit">>

\* a JSON object holding the six fields of a ParsedQuestion
SixFields(fmt, surl, files) ==
  [task_type |-> "data_analysis", files_to_download |-> files,
   submit_url |-> surl, answer_format |-> fmt,
   analysis_required |-> <<"a">>, expected_answer_key |-> "answer"]

\* a ParsedQuestion that names another key for the answer
WithKey(d, key) == [d EXCEPT !.expected_answer_key = key]

\* the JSON objects the reasoning service may answer parse_question with:
\* complete ones (with a submit URL, with null or "" for it), one with a
\* null file list, one with a format outside the enumeration, two that omit
\* fields, and ones whose expected_answer_key is "result" or the name of
\* another field of the submission body
ServiceObjects ==
  {SixFields("number", SubmitUrlT, << >>),
   WithKey(SixFields("number", SubmitUrlT, << >>), "result"),
   WithKey(SixFields("number", SubmitUrlT, << >>), "email"),
   WithKey(SixFields("number", SubmitUrlT, << >>), "secret"),
   WithKey(SixFields("number", SubmitUrlT, << >>), "url"),
   SixFields("string", NoneT, <<"f1", "f2">>),
   SixFields("json", SubmitUrlT, <<"f1">>),
   SixFields("boolean", SubmitUrlT, NoneT),
   SixFields("integer", << >>, << >>),
   [task_type |-> "data_analysis", submit_url |-> SubmitUrlT],
   [task_type |-> "data_analysis", answer_format |-> "number"]}

ParseResponses ==
  {<<Obj(d)>> : d \in ServiceObjects}
    \cup {<<Seg("prose"), Obj(SixFields("number", SubmitUrlT, << >>)), Seg("prose")>>,
          <<Obj(SixFields("number", SubmitUrlT, << >>)), Seg("prose"), Seg("rbrace")>>,
          <<Seg("prose")>>, <<Seg("scalar")>>, <<Seg("lbrace"), Seg("prose")>>}

ParseChats == {ChatRaise("APIError"), ChatNone} \cup {ChatText(r) : r \in ParseResponses}

AnswerResponses ==
  {<<Seg("prose"), Digit(7), Seg("prose"), Digit(5)>>,
   <<Seg("prose"), Seg("space"), Seg("T"), Seg("r"), Seg("u"), Seg("e")>>,
   <<Obj([answer |-> "x"])>>,
   <<Seg("prose")>>}

AnswerChats == {ChatRaise("APIError"), ChatNone} \cup {ChatText(r) : r \in AnswerResponses}

\* the URLs a chain starts on, and the values of the judge's "url" field
InitialUrls == {"q0", ""}
NextUrls == {None, "", "q1", "q2"}

\* the JSON objects the judge may answer a submission with: each of
\* correct, url and reason is present or not
Field(name, v) == IF v = "absent" THEN EmptyDict ELSE (name :> v)

JudgeDicts ==
  {((IF c = "absent" THEN EmptyDict ELSE ("correct" :> (c = "true")))
      @@ Field("url", u)) @@ Field("reason", r) :
     c \in {"absent", "true", "false"}, u \in {"absent"} \cup NextUrls,
     r \in {"absent", "wrong"}}

\* ----------------------------------------------------------------- state
VARIABLES
  now,            \* datetime.now()
  start_time,     \* the start_time argument of solve_quiz_chain
  current_url,    \* solve_quiz_chain
  quiz_count,     \* solve_quiz_chain
  elapsed,        \* solve_quiz_chain
  outcome,        \* how the loop of solve_quiz_chain was left
  pc,             \* the statement the chain stands at
  quiz_url,       \* solve_single_quiz: its argument
  html_content,   \* solve_single_quiz
  question_text,  \* solve_single_quiz
  parsed_info,    \* solve_single_quiz
  files_left,     \* solve_question: the file URLs still to iterate over
  downloaded,     \* solve_question: downloaded_files
  answer_response, \* solve_question
  failed,         \* solve_question: the file URLs logged at line 129
  answer,         \* solve_single_quiz
  submit_url,     \* solve_single_quiz
  payload,        \* submit_answer: the JSON body it posts
  result,         \* (success, next_url, error) of the last solve_single_quiz
  inflight,       \* the collaborator calls begun and not yet finished
  calls,          \* the number of calls begun so far, per kind
  thrown,         \* the exception that reached line 251 in this iteration
  thrown_by,      \* the callee of solve_single_quiz that raised it
  submit_error,   \* submit_answer: the exception its handler caught (line 198)
  escaped         \* the exception that left solve_single_quiz

\* the state of one chain run
chain ==
  <<now, start_time, current_url, quiz_count, elapsed, outcome, pc, quiz_url,
    html_content, question_text, parsed_info, files_left, downloaded, failed,
    answer_response, answer, submit_url, payload, result, inflight, calls,
    thrown, thrown_by, submit_error, escaped>>

\* the inbound endpoint of src/main.py
VARIABLES
  exchanges,         \* receive_quiz: the requests handled, with their responses
  background_tasks   \* receive_quiz: the tasks handed to background_tasks.add_task

endpoint == <<exchanges, background_tasks>>

\* two chain runs of one process, side by side
VARIABLES
  wall_clock,   \* datetime.now() of the process
  browser,      \* self.browser: its open pages, each with the URL it shows
  runs          \* per run: the locals of process_quiz_chain, solve_quiz_chain
                \* and fetch_quiz_page, and the run's position

concurrent == <<wall_clock, browser, runs>>

\* one call of extract_answer
VARIABLES
  given_response,   \* extract_answer: its argument response
  given_format,     \* extract_answer: its argument answer_format
  extracted,        \* extract_answer: what it returned
  extract_pc        \* "call" before the call, "returned" after it

\* one call of extract_question_from_html
VARIABLES
  given_html,       \* extract_question_from_html: its argument html
  question,         \* extract_question_from_html: what it returned
  question_pc       \* "call" before the call, "returned" after it

extraction ==
  <<given_response, given_format, extracted, extract_pc, given_html, question,
    question_pc>>

\* the state a chain run does not touch
outside == <<endpoint, concurrent, extraction>>

vars == <<chain, outside>>

\* no request has come in
NoTraffic ==
  /\ exchanges = << >>
  /\ background_tasks = << >>

\* extract_answer is not being called
NoExtraction ==
  /\ given_response = << >>
  /\ given_format = "string"
  /\ extracted = NoAnswer
  /\ extract_pc = "call"
  /\ given_html = << >>
  /\ question = << >>
  /\ question_pc = "idle"

Runs == {1, 2}
NoPage == 0

\* a run that process_quiz_chain has not begun
IdleRun ==
  [pc |-> "idle", start_time |-> 0, current_url |-> None, quiz_count |-> 0,
   elapsed |-> 0, page |-> NoPage, html |-> None, success |-> FALSE,
   next_url |-> None]

\* no background task has begun
NoRuns ==
  /\ wall_clock = 0
  /\ browser = EmptyDict
  /\ runs = [r \in Runs |-> IdleRun]

locals ==
  <<quiz_url, html_content, question_text, parsed_info, files_left, downloaded,
    failed, answer_response, answer, submit_url, payload>>

NoParsed == [isdict |-> FALSE, d |-> EmptyDict]
NoMarkup == << >>
NoResult == Tuple(FALSE, None, None)

\* the statements at which the chain waits for a collaborator
Awaiting == {"fetch", "parse", "download", "solve", "submit"}

InitChain ==
  /\ start_time = 0
  /\ now \in 0..MaxClock
  /\ current_url \in InitialUrls
  /\ quiz_count = 0
  /\ elapsed = 0
  /\ outcome = "RUNNING"
  /\ pc = "loop"
  /\ quiz_url = None
  /\ html_content = NoMarkup
  /\ question_text = << >>
  /\ parsed_info = NoParsed
  /\ files_left = << >>
  /\ downloaded = << >>
  /\ failed = << >>
  /\ answer_response = << >>
  /\ answer = NoAnswer
  /\ submit_url = NoneT
  /\ payload = EmptyDict
  /\ result = NoResult
  /\ inflight = {}
  /\ calls = [render |-> 0, submit |-> 0, single |-> 0, results |-> 0]
  /\ thrown = None
  /\ thrown_by = None
  /\ submit_error = None
  /\ escaped = None

Init ==
  /\ InitChain
  /\ NoTraffic
  /\ NoRuns
  /\ NoExtraction

\* AfterAwait for a call that is started and not awaited
AfterAwait_NotAwaited(pending, kind) == pending

\* an awaited call has finished when the statement after it runs
AfterAwait(pending, kind) == pending \ {kind}

\* a collaborator call begins
Begin(kind, pending) == pending \cup {kind}

ClearLocals ==
  /\ quiz_url' = None
  /\ html_content' = NoMarkup
  /\ question_text' = << >>
  /\ parsed_info' = NoParsed
  /\ files_left' = << >>
  /\ downloaded' = << >>
  /\ failed' = << >>
  /\ answer_response' = << >>
  /\ answer' = NoAnswer
  /\ submit_url' = NoneT
  /\ payload' = EmptyDict

\* solve_single_quiz returns a tuple to line 271
Return(tuple, pending) ==
  /\ result' = tuple
  /\ pc' = "decide"
  /\ inflight' = pending
  /\ calls' = [calls EXCEPT !.results = @ + 1]
  /\ ClearLocals

\* an exception e, raised by callee who, reaches the handler of lines
\* 251-253; what the handler does not absorb leaves solve_single_quiz and,
\* solve_quiz_chain having no handler, ends the chain
Except(e, who, pending) ==
  /\ thrown' = e
  /\ thrown_by' = who
  /\ UNCHANGED submit_error
  /\ IF Absorbs(e)
       THEN /\ Return(Tuple(FALSE, None, e), pending)
            /\ UNCHANGED <<escaped, outcome>>
       ELSE /\ escaped' = e
            /\ outcome' = "CRASHED"
            /\ pc' = "done"
            /\ inflight' = pending
            /\ UNCHANGED <<result, calls>>
            /\ ClearLocals

\* lines 261-271: the top of the loop, up to the call of solve_single_quiz
\* and, in it, of fetch_quiz_page
IterStartWithin(cap) ==
  /\ pc = "loop"
  /\ UNCHANGED outside
  /\ Truthy(current_url)
  /\ quiz_count < cap
  /\ quiz_count' = quiz_count + 1
  /\ elapsed' = now - start_time
  /\ thrown' = None
  /\ thrown_by' = None
  /\ submit_error' = None
  /\ IF TimeExceeded(now - start_time)
       THEN /\ outcome' = "TIMED_OUT"
            /\ pc' = "done"
            /\ UNCHANGED <<inflight, calls, quiz_url, result>>
       ELSE /\ pc' = "fetch"
            /\ quiz_url' = current_url
            /\ result' = NoResult
            /\ inflight' = Begin("render", inflight)
            /\ calls' = [calls EXCEPT !.single = @ + 1, !.render = @ + 1]
            /\ UNCHANGED outcome
  /\ UNCHANGED <<now, start_time, current_url, escaped, html_content,
                 question_text, parsed_info, files_left, downloaded, failed,
                 answer_response, answer, submit_url, payload>>

IterStart == IterStartWithin(MaxIter)

\* line 261: the loop condition fails
LoopExit ==
  /\ pc = "loop"
  /\ UNCHANGED outside
  /\ ~Truthy(current_url)
  /\ pc' = "done"
  /\ outcome' = "STOPPED_NO_NEXT"
  /\ UNCHANGED <<now, start_time, current_url, quiz_count, elapsed, result,
                 inflight, calls, thrown, thrown_by, submit_error, escaped>>
  /\ UNCHANGED locals

\* lines 210-217: the page is rendered, the question extracted, and
\* parse_question asks the reasoning service
FetchReturn ==
  /\ pc = "fetch"
  /\ UNCHANGED outside
  /\ \E html \in Htmls :
       /\ html_content' = html
       /\ question_text' = Tokens(extract_question_from_html(html))
  /\ pc' = "parse"
  /\ inflight' = Begin("llm", AfterAwait(inflight, "render"))
  /\ UNCHANGED <<now, start_time, current_url, quiz_count, elapsed, outcome,
                 quiz_url, calls, parsed_info, files_left, downloaded, failed,
                 answer_response, answer, submit_url, payload, result, thrown,
                 thrown_by, submit_error, escaped>>

\* line 210: fetch_quiz_page raises (goto times out, content fails)
FetchRaise ==
  /\ pc = "fetch"
  /\ UNCHANGED outside
  /\ Except("PlaywrightError", "fetch_quiz_page", AfterAwait(inflight, "render"))
  /\ UNCHANGED <<now, start_time, current_url, quiz_count, elapsed>>

\* lines 96-114 and 217-218: the reasoning service answers and
\* parse_question returns or raises
ParseReturn ==
  /\ pc = "parse"
  /\ UNCHANGED outside
  /\ \E chat \in ParseChats :
       LET r == parse_question(question_text, chat)
       IN  IF r.raised
             THEN Except(r.exc, "parse_question", AfterAwait(inflight, "llm"))
           ELSE /\ parsed_info' = [isdict |-> r.isdict, d |-> r.d]
                /\ pc' = "parsed"
                /\ inflight' = AfterAwait(inflight, "llm")
                /\ UNCHANGED <<quiz_url, html_content, question_text, files_left,
                               downloaded, failed, answer_response, answer,
                               submit_url, payload, result,
                               calls, thrown, thrown_by, submit_error,
                               escaped, outcome>>
  /\ UNCHANGED <<now, start_time, current_url, quiz_count, elapsed>>

\* lines 221 and 118-126: solve_question reads the ParsedQuestion and
\* starts on the files, or, there being none, asks for the answer (147)
SolveBegin ==
  /\ pc = "parsed"
  /\ UNCHANGED outside
  /\ LET files == Get(parsed_info.d, "files_to_download", << >>)
     IN  IF ~parsed_info.isdict
           THEN Except("AttributeError", "solve_question", inflight)
         ELSE IF files = NoneT
           THEN Except("TypeError", "solve_question", inflight)
         ELSE /\ files_left' = files
              /\ downloaded' = << >>
              /\ failed' = << >>
              /\ pc' = IF files = << >> THEN "solve" ELSE "download"
              /\ inflight' = Begin(IF files = << >> THEN "llm" ELSE "download", inflight)
              /\ UNCHANGED <<quiz_url, html_content, question_text, parsed_info,
                             answer_response, answer, submit_url, payload,
                             result, calls, thrown, thrown_by, submit_error,
                             escaped, outcome>>
  /\ UNCHANGED <<now, start_time, current_url, quiz_count, elapsed>>

\* lines 124-129 and 147: one download ends, well or not; after the last
\* one solve_question asks the reasoning service for the answer
DownloadReturn ==
  /\ pc = "download"
  /\ UNCHANGED outside
  /\ \E out \in DownloadOutcomes :
       LET file_url == Head(files_left)
           pending  == AfterAwait(inflight, "download")
           last     == Tail(files_left) = << >>
       IN  IF out # "ok" /\ ~DownloadCaught(out)
             THEN Except(out, "solve_question", pending)
           ELSE /\ downloaded' = IF out = "ok" THEN Append(downloaded, file_url)
                                 ELSE downloaded
                /\ failed' = IF out = "ok" THEN failed ELSE Append(failed, file_url)
                /\ files_left' = Tail(files_left)
                /\ pc' = IF last THEN "solve" ELSE "download"
                /\ inflight' = Begin(IF last THEN "llm" ELSE "download", pending)
                /\ UNCHANGED <<outcome, quiz_url, calls, html_content, question_text,
                               parsed_info, answer_response, answer, submit_url,
                               payload, result, thrown, thrown_by, submit_error,
                               escaped>>
  /\ UNCHANGED <<now, start_time, current_url, quiz_count, elapsed>>

\* the exception extract_answer raises on a None response
NoneResponseError(answer_format) ==
  IF answer_format \in {"number", "json"} THEN "TypeError" ELSE "AttributeError"

\* lines 147-153 and 222-237: the answer is extracted, the submit URL
\* resolved and the submission posted
SolveReturn ==
  /\ pc = "solve"
  /\ UNCHANGED outside
  /\ \E chat \in AnswerChats :
       LET fmt == Get(parsed_info.d, "answer_format", "string")
           target == ResolveSubmitUrl(parsed_info.d, question_text)
           answer_key == Get(parsed_info.d, "expected_answer_key", "answer")
           pending == AfterAwait(inflight, "llm")
       IN  IF chat.kind = "raise"
             THEN Except(chat.exc, "solve_question", pending)
           ELSE IF chat.kind = "none"
             THEN Except(NoneResponseError(fmt), "solve_question", pending)
           ELSE IF target = NoneT
             THEN /\ Return(Tuple(FALSE, None, "No submit URL found"), pending)
                  /\ UNCHANGED <<thrown, thrown_by, submit_error, escaped, outcome>>
           ELSE /\ answer_response' = chat.text
                /\ answer' = extract_answer(chat.text, fmt)
                /\ submit_url' = target
                /\ payload' = Payload(quiz_url, answer_key, extract_answer(chat.text, fmt))
                /\ pc' = "submit"
                /\ inflight' = Begin("submit", pending)
                /\ calls' = [calls EXCEPT !.submit = @ + 1]
                /\ UNCHANGED <<quiz_url, html_content, question_text, parsed_info,
                               files_left, downloaded, failed, result, thrown,
                               thrown_by, submit_error, escaped, outcome>>
  /\ UNCHANGED <<now, start_time, current_url, quiz_count, elapsed>>

\* a submitter that posts the same body once more when the judge answers
SubmitReturn_PostsAgain ==
  /\ pc = "submit"
  /\ UNCHANGED outside
  /\ calls.submit < MaxIter + 1
  /\ calls' = [calls EXCEPT !.submit = @ + 1]
  /\ UNCHANGED <<now, start_time, current_url, quiz_count, elapsed, outcome, pc,
                 result, inflight, thrown, thrown_by, submit_error, escaped>>
  /\ UNCHANGED locals

\* lines 194-197 and 240-249: the judge answers with a JSON object
SubmitReturn ==
  /\ pc = "submit"
  /\ UNCHANGED outside
  /\ \E judge \in JudgeDicts : Return(VerdictTuple(judge), AfterAwait(inflight, "submit"))
  /\ UNCHANGED <<now, start_time, current_url, quiz_count, elapsed, outcome,
                 thrown, thrown_by, submit_error, escaped>>

\* lines 198-200 and 240-249: the post or the decoding of its response
\* fails, and submit_answer returns {"correct": False, "error": str(e)}
SubmitFails ==
  /\ pc = "submit"
  /\ UNCHANGED outside
  /\ \E e \in SubmitErrors :
       /\ submit_error' = e
       /\ Return(VerdictTuple(SubmitErrorDict(e)), AfterAwait(inflight, "submit"))
  /\ UNCHANGED <<now, start_time, current_url, quiz_count, elapsed, outcome,
                 thrown, thrown_by, escaped>>

\* lines 195-197 and 240: the judge answers with JSON that is no object,
\* and result.get raises
SubmitNonDict ==
  /\ pc = "submit"
  /\ UNCHANGED outside
  /\ Except("AttributeError", "solve_single_quiz", AfterAwait(inflight, "submit"))
  /\ UNCHANGED <<now, start_time, current_url, quiz_count, elapsed>>

\* lines 273-286
Decide ==
  /\ pc = "decide"
  /\ UNCHANGED outside
  /\ LET step == ChainStep(result.success, result.next_url, elapsed)
     IN  IF step = "advance"
           THEN /\ current_url' = result.next_url
                /\ pc' = "loop"
                /\ UNCHANGED outcome
         ELSE /\ outcome' = step
              /\ pc' = "done"
              /\ UNCHANGED current_url
  /\ UNCHANGED <<now, start_time, quiz_count, elapsed, result, inflight, calls,
                 thrown, thrown_by, submit_error, escaped>>
  /\ UNCHANGED locals

\* time passes while the chain waits for a collaborator
Tick ==
  /\ pc \in Awaiting
  /\ UNCHANGED outside
  /\ now < MaxClock
  /\ now' = now + 1
  /\ UNCHANGED <<start_time, current_url, quiz_count, elapsed, outcome, pc,
                 result, inflight, calls, thrown, thrown_by, submit_error,
                 escaped>>
  /\ UNCHANGED locals

Next ==
  \/ IterStart
  \/ LoopExit
  \/ FetchReturn
  \/ FetchRaise
  \/ ParseReturn
  \/ SolveBegin
  \/ DownloadReturn
  \/ SolveReturn
  \/ SubmitReturn
  \/ SubmitFails
  \/ SubmitNonDict
  \/ Decide
  \/ Tick

Spec == Init /\ [][Next]_vars

\* ------------------------------------------ a chain run under fairness
\* asyncio.sleep(2) of line 44 has run: the clock has moved since the
\* iteration read it at line 263 (here one unit of time stands for the
\* least time a render takes)
Slept == now - start_time > elapsed

\* lines 41-46 with the wait of line 44
SleptFetchReturn == Slept /\ FetchReturn

\* the top of the loop, the number of iterations left to the clock
LiveIterStart == IterStartWithin(MaxLiveIter)

NextLive ==
  \/ LiveIterStart
  \/ LoopExit
  \/ SleptFetchReturn
  \/ FetchRaise
  \/ ParseReturn
  \/ SolveBegin
  \/ DownloadReturn
  \/ SolveReturn
  \/ SubmitReturn
  \/ SubmitFails
  \/ SubmitNonDict
  \/ Decide
  \/ Tick

\* the event loop runs the coroutine whenever it can go on, time passes,
\* and every collaborator call comes back: the page renderer within its
\* timeout of line 43, the reasoning service, the file retriever and the
\* judge within the timeouts of their clients
Fairness ==
  /\ WF_vars(LiveIterStart)
  /\ WF_vars(LoopExit)
  /\ WF_vars(Decide)
  /\ WF_vars(SolveBegin)
  /\ WF_vars(Tick)
  /\ WF_vars(SleptFetchReturn \/ FetchRaise)
  /\ WF_vars(ParseReturn)
  /\ WF_vars(DownloadReturn)
  /\ WF_vars(SolveReturn)
  /\ WF_vars(SubmitReturn \/ SubmitFails \/ SubmitNonDict)

SpecLive == Init /\ [][NextLive]_vars /\ Fairness

\* ====================================================== the inbound endpoint
\* A request body: text that is no JSON ("malformed"), a JSON value that is
\* no object ("value": an array, a number, a string, null), or a JSON
\* object d; a null field of an object is held as None.
Malformed == [json |-> "malformed", d |-> EmptyDict]
NonObject == [json |-> "value", d |-> EmptyDict]
Object(d) == [json |-> "object", d |-> d]

\* the bodies of the requests: every choice of absent or present for email,
\* secret (right, wrong or null) and url
Bodies ==
  {Malformed, NonObject}
    \cup {Object((Field("email", e) @@ Field("secret", k)) @@ Field("url", u)) :
            e \in {"absent", STUDENT_EMAIL},
            k \in {"absent", None, SECRET_KEY, "wrong"},
            u \in {"absent", "q0", "q1"}}

\* lines 53-57: QuizRequest(**payload_json) raises ValidationError unless
\* email, secret and url are there and are strings
Validates(d) ==
  \A f \in {"email", "secret", "url"} : f \in DOMAIN d /\ d[f] # None

\* what receive_quiz answers, and the URL it schedules a chain for (None
\* when it schedules none)
Answered(status, detail, url) == [status |-> status, detail |-> detail, task |-> url]

\* lines 95-130; a JSON value that is no object makes QuizRequest(**...)
\* raise TypeError, which only the handler of lines 71-77 takes
receive_quiz(body) ==
  IF body.json = "malformed" THEN Answered(400, "Malformed JSON", None)
  ELSE IF body.json # "object" THEN Answered(500, "Internal server error", None)
  ELSE IF ~Validates(body.d) THEN Answered(400, "Invalid payload", None)
  ELSE IF body.d["secret"] # SECRET_KEY
    THEN Answered(403, "Forbidden: invalid secret", None)
  ELSE Answered(200, "processing", body.d["url"])

\* a chain that stands still, for the specifications that leave it aside
ParkedChain ==
  /\ InitChain
  /\ now = 0
  /\ current_url = ""

InitEndpoint ==
  /\ ParkedChain
  /\ NoTraffic
  /\ NoRuns
  /\ NoExtraction

\* lines 87-130: a request comes in and receive_quiz handles it
ReceiveQuiz ==
  /\ Len(exchanges) < MaxRequests
  /\ \E body \in Bodies :
       LET r == receive_quiz(body)
       IN  /\ exchanges' = Append(exchanges,
                                  [body |-> body, status |-> r.status,
                                   detail |-> r.detail, sent |-> FALSE])
           /\ background_tasks' =
                IF r.task = None THEN background_tasks
                ELSE Append(background_tasks,
                            [of |-> Len(exchanges) + 1, quiz_url |-> r.task,
                             started |-> FALSE])
  /\ UNCHANGED <<chain, concurrent, extraction>>

\* the response of a handled request goes out
SendResponse ==
  /\ \E i \in 1..Len(exchanges) :
       /\ ~exchanges[i].sent
       /\ exchanges' = [exchanges EXCEPT ![i].sent = TRUE]
  /\ UNCHANGED <<background_tasks, chain, concurrent, extraction>>

\* lines 79-83 and 123: a background task runs once its response has gone
\* out, and process_quiz_chain begins
RunTask ==
  /\ \E j \in 1..Len(background_tasks) :
       /\ ~background_tasks[j].started
       /\ exchanges[background_tasks[j].of].sent
       /\ background_tasks' = [background_tasks EXCEPT ![j].started = TRUE]
  /\ UNCHANGED <<exchanges, chain, concurrent, extraction>>

NextEndpoint ==
  \/ ReceiveQuiz
  \/ SendResponse
  \/ RunTask

SpecEndpoint == InitEndpoint /\ [][NextEndpoint]_vars

\* ===================================================== two concurrent runs
\* the URLs the two background tasks are scheduled for, and the values of
\* the "url" field of the verdicts
RunUrls(r) == IF r = 1 THEN {"q0"} ELSE {"q1", ""}
RunNextUrls == {None, "q2"}

\* FreshPage for a solver that keeps one page for all its fetches
FreshPage_Shared(pages) == 1

\* line 41: browser.new_page() makes a page that is none of the open ones
FreshPage(pages) == Min({p \in 1..(Cardinality(DOMAIN pages) + 1) : p \notin DOMAIN pages})

\* main.py lines 79-83 and quiz_solver.py lines 257-259: a background task
\* begins
StartRun(r) ==
  /\ runs[r].pc = "idle"
  /\ \E url \in RunUrls(r) :
       runs' = [runs EXCEPT ![r] = [@ EXCEPT !.pc = "loop",
                                            !.start_time = wall_clock,
                                            !.current_url = url]]
  /\ UNCHANGED <<wall_clock, browser, chain, endpoint,
                 extraction>>

\* lines 261-267: the top of the loop
RunIterStart(r) ==
  /\ runs[r].pc = "loop"
  /\ Truthy(runs[r].current_url)
  /\ runs[r].quiz_count < MaxRunIter
  /\ runs' = [runs EXCEPT ![r] =
                [@ EXCEPT !.quiz_count = @ + 1,
                          !.elapsed = wall_clock - runs[r].start_time,
                          !.pc = IF TimeExceeded(wall_clock - runs[r].start_time)
                                   THEN "done" ELSE "new_page"]]
  /\ UNCHANGED <<wall_clock, browser, chain, endpoint,
                 extraction>>

\* line 41
NewPage(r) ==
  /\ runs[r].pc = "new_page"
  /\ LET p == FreshPage(browser)
     IN  /\ browser' = (p :> "about:blank") @@ browser
         /\ runs' = [runs EXCEPT ![r] = [@ EXCEPT !.page = p, !.html = None,
                                                  !.pc = "goto"]]
  /\ UNCHANGED <<wall_clock, chain, endpoint,
                 extraction>>

\* line 43: the run's page loads the quiz URL, or goto raises
Goto(r) ==
  /\ runs[r].pc = "goto"
  /\ \/ /\ browser' = [browser EXCEPT ![runs[r].page] = runs[r].current_url]
        /\ runs' = [runs EXCEPT ![r].pc = "content"]
     \/ /\ runs' = [runs EXCEPT ![r].pc = "close"]
        /\ UNCHANGED browser
  /\ UNCHANGED <<wall_clock, chain, endpoint,
                 extraction>>

\* lines 44-46: the run reads the content of its page, or content raises
Content(r) ==
  /\ runs[r].pc = "content"
  /\ \/ runs' = [runs EXCEPT ![r] = [@ EXCEPT !.html = Get(browser, runs[r].page, "closed"),
                                             !.pc = "close"]]
     \/ runs' = [runs EXCEPT ![r].pc = "close"]
  /\ UNCHANGED <<wall_clock, browser, chain, endpoint,
                 extraction>>

\* a finally block that is left out when the try block raised
AfterFinally_SkippedOnError(pages, page, content) ==
  IF content = None THEN pages ELSE [p \in DOMAIN pages \ {page} |-> pages[p]]

\* lines 47-48: finally closes the page, whatever the try block did; the
\* pages left open
AfterFinally(pages, page, content) == [p \in DOMAIN pages \ {page} |-> pages[p]]

\* lines 47-48 and 210-253: the page is closed; the rest of
\* solve_single_quiz runs on the content, or, goto or content having
\* raised, its handler returns (False, None, str(e))
ClosePage(r) ==
  /\ runs[r].pc = "close"
  /\ browser' = AfterFinally(browser, runs[r].page, runs[r].html)
  /\ \E success \in BOOLEAN, next_url \in RunNextUrls :
       runs' = [runs EXCEPT ![r] =
                 [@ EXCEPT !.page = NoPage,
                           !.html = None,
                           !.success = IF runs[r].html = None THEN FALSE ELSE success,
                           !.next_url = IF runs[r].html = None THEN None ELSE next_url,
                           !.pc = "decide"]]
  /\ UNCHANGED <<wall_clock, chain, endpoint,
                 extraction>>

\* lines 273-286
RunDecide(r) ==
  /\ runs[r].pc = "decide"
  /\ LET step == ChainStep(runs[r].success, runs[r].next_url, runs[r].elapsed)
     IN  runs' = [runs EXCEPT ![r] =
                   [@ EXCEPT !.current_url = IF step = "advance" THEN runs[r].next_url ELSE @,
                             !.success = FALSE,
                             !.next_url = None,
                             !.pc = IF step = "advance" THEN "loop" ELSE "done"]]
  /\ UNCHANGED <<wall_clock, browser, chain, endpoint,
                 extraction>>

\* line 261: the loop condition fails
RunLoopExit(r) ==
  /\ runs[r].pc = "loop"
  /\ ~Truthy(runs[r].current_url)
  /\ runs' = [runs EXCEPT ![r].pc = "done"]
  /\ UNCHANGED <<wall_clock, browser, chain, endpoint,
                 extraction>>

\* time passes while a run waits for its page
TickRuns ==
  /\ \E r \in Runs : runs[r].pc \in {"idle", "new_page", "goto", "content", "close"}
  /\ wall_clock < MaxRunClock
  /\ wall_clock' = wall_clock + 1
  /\ UNCHANGED <<browser, runs, chain, endpoint,
                 extraction>>

InitRuns ==
  /\ ParkedChain
  /\ NoTraffic
  /\ NoRuns
  /\ NoExtraction

NextRuns ==
  \/ \E r \in Runs : StartRun(r)
  \/ \E r \in Runs : RunIterStart(r)
  \/ \E r \in Runs : NewPage(r)
  \/ \E r \in Runs : Goto(r)
  \/ \E r \in Runs : Content(r)
  \/ \E r \in Runs : ClosePage(r)
  \/ \E r \in Runs : RunDecide(r)
  \/ \E r \in Runs : RunLoopExit(r)
  \/ TickRuns

SpecRuns == InitRuns /\ [][NextRuns]_vars

\* ================================================== extract_answer alone
\* the sequences over S of length n at most
SeqsUpTo(S, n) == UNION {[1..k -> S] : k \in 0..n}

\* the segments of the responses tried with each format: digits, points,
\* signs and other text for number; the letters of true and yes for
\* boolean; objects and braces for json; plain text for the rest
Alphabet(fmt) ==
  IF fmt = "number"
    THEN {Digit(0), Digit(5), Seg("dot"), Seg("minus"), Seg("prose"), Seg("space")}
  ELSE IF fmt = "boolean"
    THEN {Seg(l) : l \in {"t", "r", "u", "e", "y", "s", "T", "prose"}}
  ELSE IF fmt = "json"
    THEN {Obj([answer |-> "x"]), Seg("lbrace"), Seg("rbrace"), Seg("prose"), Seg("space")}
  ELSE {Seg("prose"), Seg("space"), Digit(5)}

\* the formats of the enumeration and one outside it
GivenFormats == {"number", "string", "boolean", "json", "base64_image", "integer"}

InitExtract ==
  /\ ParkedChain
  /\ NoTraffic
  /\ NoRuns
  /\ given_format \in GivenFormats
  /\ given_response \in SeqsUpTo(Alphabet(given_format), MaxRespLen)
  /\ extracted = NoAnswer
  /\ extract_pc = "call"
  /\ given_html = << >>
  /\ question = << >>
  /\ question_pc = "idle"

\* lines 155-179
ExtractAnswer ==
  /\ extract_pc = "call"
  /\ extracted' = extract_answer(given_response, given_format)
  /\ extract_pc' = "returned"
  /\ UNCHANGED <<given_response, given_format, given_html, question, question_pc,
                 chain, endpoint, concurrent>>

NextExtract == ExtractAnswer

SpecExtract == InitExtract /\ [][NextExtract]_vars

\* --------------------------- one call of extract_question_from_html
\* the runs of the markups tried: text of 5 and of 1990 characters, white
\* space, the opening and closing tags of the three containers, and
\* markers whose literal decodes to a text, decodes to nothing, is cut
\* short, or holds bytes that are no text
MarkupAlphabet ==
  {Run("text", "a", 5), Run("text", "a", 1990), Run("ws", " ", 3),
   Run("result", "<div id=result>", 17),
   Run("question", "<div class=question>", 22),
   Run("body", "<body>", 6),
   Run("enddiv", "</div>", 6),
   Run("endbody", "</body>", 7),
   Marker(<<Piece("quad", "a", 12)>>),
   Marker(<<Piece("junk", "!", 3)>>),
   Marker(<<Piece("quad", "a", 12), Piece("short", "a", 1)>>),
   Marker(<<Piece("nonutf", "/w==", 4)>>)}

InitQuestion ==
  /\ ParkedChain
  /\ NoTraffic
  /\ NoRuns
  /\ given_response = << >>
  /\ given_format = "string"
  /\ extracted = NoAnswer
  /\ extract_pc = "call"
  /\ given_html \in SeqsUpTo(MarkupAlphabet, MaxMarkupLen)
  /\ question = << >>
  /\ question_pc = "call"

\* lines 50-80
ExtractQuestion ==
  /\ question_pc = "call"
  /\ question' = extract_question_from_html(given_html)
  /\ question_pc' = "returned"
  /\ UNCHANGED <<given_html, given_response, given_format, extracted, extract_pc,
                 chain, endpoint, concurrent>>

NextQuestion == ExtractQuestion

SpecQuestion == InitQuestion /\ [][NextQuestion]_vars

\* ================================================================ claims

\* C1: after an iteration whose verdict is correct, a verdict with a
\* next_url keeps the chain running with current_url set to exactly that
\* next_url, and the next iteration calls solve_single_quiz on current_url;
\* a verdict without next_url ends the chain as SUCCEEDED, after which no
\* call begins and nothing changes.
C1_CorrectVerdict ==
  [][/\ (pc = "decide" /\ result.success /\ Truthy(result.next_url))
          => (pc' = "loop" /\ outcome' = "RUNNING" /\ current_url' = result.next_url)
     /\ (pc = "decide" /\ result.success /\ ~Truthy(result.next_url))
          => (pc' = "done" /\ outcome' = "SUCCEEDED" /\ inflight' = {} /\ calls' = calls)
     /\ (pc = "loop" /\ pc' = "fetch") => quiz_url' = current_url
     /\ outcome = "SUCCEEDED" => UNCHANGED <<pc, outcome, inflight, calls>>]_vars

\* the chain has moved on to the next_url of a correct verdict
C1_Witness ==
  /\ pc = "loop"
  /\ result.success
  /\ Truthy(result.next_url)
  /\ current_url = result.next_url
  /\ outcome = "RUNNING"

\* C2: after an iteration whose verdict is incorrect but carries a next_url,
\* with less than 3 minutes elapsed, the chain keeps running with
\* current_url set to that next_url.
C2_WrongButContinuable ==
  [][(pc = "decide" /\ ~result.success /\ Truthy(result.next_url)
        /\ now - start_time < max_time)
       => (pc' = "loop" /\ outcome' = "RUNNING" /\ current_url' = result.next_url)]_vars

\* the chain has moved on to the next_url of an incorrect verdict
C2_Witness ==
  /\ pc = "loop"
  /\ calls.results > 0
  /\ ~result.success
  /\ Truthy(result.next_url)
  /\ current_url = result.next_url
  /\ now - start_time < max_time

\* C3: after an iteration whose result is not successful and has no
\* next_url the chain ends as FAILED; no call begins then or later.
C3_FailedWithoutNext ==
  [][/\ (pc = "decide" /\ ~result.success /\ ~Truthy(result.next_url))
          => (pc' = "done" /\ outcome' = "FAILED" /\ inflight' = {} /\ calls' = calls)
     /\ outcome = "FAILED" => UNCHANGED <<pc, outcome, inflight, calls, quiz_count>>]_vars

\* the chain has failed on a result without next_url
C3_Witness ==
  /\ pc = "done"
  /\ outcome = "FAILED"
  /\ ~result.success
  /\ ~Truthy(result.next_url)

\* C4: an iteration that starts with 3 minutes or more elapsed makes no
\* pipeline call: the chain is never inside the pipeline of an iteration
\* that started at or after the 3-minute mark.
C4_NoPipelineFromThreeMinutes ==
  pc \in Awaiting \cup {"parsed", "decide"} => elapsed < max_time

\* C5: once the budget is spent when an incorrect verdict is known, the
\* chain does not move on to the verdict's next_url.
C5_NoAdvanceOnceBudgetSpent ==
  ~(/\ pc = "loop"
    /\ calls.results > 0
    /\ ~result.success
    /\ current_url = result.next_url
    /\ now - start_time >= max_time)

\* C6: at most one collaborator call of the chain is in flight, none is in
\* flight between iterations, and while a call of an iteration is in flight
\* every earlier iteration has produced its result tuple.
C6_StrictlySequential ==
  /\ Cardinality(inflight) <= 1
  /\ pc \in {"loop", "parsed", "decide", "done"} => inflight = {}
  /\ pc \in Awaiting => inflight # {}
  /\ pc \in Awaiting \cup {"parsed"} => calls.results = calls.single - 1
  /\ "render" \in inflight => calls.results = calls.render - 1

\* the render of the second iteration is in flight
C6_Witness ==
  /\ pc = "fetch"
  /\ inflight = {"render"}
  /\ calls.render = 2
  /\ calls.results = 1

NoSubmitTarget ==
  /\ pc \in {"parsed", "download", "solve"}
  /\ ~TruthyT(Get(parsed_info.d, "submit_url", NoneT))
  /\ FirstSubmitMatch(question_text) = 0

\* C8: when neither the ParsedQuestion nor the question text gives a submit
\* URL, the iteration sends no submission and returns a tuple with
\* success False, next_url None and an error text, and the chain then ends
\* as FAILED.
C8_NoSubmitUrl ==
  [][/\ NoSubmitTarget
          => /\ calls'.submit = calls.submit
             /\ "submit" \notin inflight'
             /\ pc' \in {"download", "solve", "decide"}
             /\ pc' = "decide"
                  => (~result'.success /\ result'.next_url = None /\ result'.error # None)
     /\ (pc = "decide" /\ result.error = "No submit URL found")
          => (pc' = "done" /\ outcome' = "FAILED")]_vars

\* a chain has failed for want of a submit URL
C8_Witness ==
  /\ pc = "done"
  /\ outcome = "FAILED"
  /\ result = Tuple(FALSE, None, "No submit URL found")
  /\ calls.submit = 0

\* C9: parse_question never raises.
C9_ParseQuestionNeverRaises == thrown_by # "parse_question"

\* the six fields of a ParsedQuestion and the five answer formats
SixKeys ==
  {"task_type", "files_to_download", "submit_url", "answer_format",
   "analysis_required", "expected_answer_key"}
AnswerFormats == {"number", "string", "boolean", "json", "base64_image"}

\* C10: every value parse_question returns holds the six fields of a
\* ParsedQuestion, with an answer_format among the five formats.
C10_ParsedQuestionPopulated ==
  pc = "parsed"
    => /\ parsed_info.isdict
       /\ SixKeys \subseteq DOMAIN parsed_info.d
       /\ parsed_info.d.answer_format \in AnswerFormats

\* C11: submit_answer never raises, and a transport or decode failure of
\* the submission ends the iteration with the tuple (False, None, <the
\* error text>).
C11_SubmitFailureCarriesText ==
  (submit_error # None /\ pc \in {"decide", "loop", "done"})
    => (thrown = None /\ result = Tuple(FALSE, None, submit_error))

\* C12: the body of every submission holds the configured email and secret,
\* the quiz URL of the iteration, and the answer under expected_answer_key.
C12_SubmissionBody ==
  pc = "submit"
    => /\ payload["email"] = JStr(email)
       /\ payload["secret"] = JStr(secret)
       /\ payload["url"] = JStr(quiz_url)
       /\ payload[Get(parsed_info.d, "expected_answer_key", "answer")] = JAnswer(answer)

\* C13: a render failure does not by itself end the chain.
C13_RenderFailureKeepsChain ==
  thrown_by = "fetch_quiz_page" => outcome = "RUNNING"

\* the elements of a sequence
Range(seq) == {seq[i] : i \in 1..Len(seq)}

\* the elements of seq outside S, in the order of seq
Without(seq, S) ==
  LET keep(x) == x \notin S
  IN  SelectSeq(seq, keep)

\* while solve_question goes through the files and after it: the files gone
\* through are those downloaded and those that failed, each kept in the
\* order of files_to_download, and the files left are the rest of the list
FilesAccounted ==
  LET files == Get(parsed_info.d, "files_to_download", << >>)
      done  == SubSeq(files, 1, Len(files) - Len(files_left))
  IN  /\ Len(files_left) <= Len(files)
      /\ files_left = SubSeq(files, Len(files) - Len(files_left) + 1, Len(files))
      /\ Range(downloaded) \cap Range(failed) = {}
      /\ downloaded = Without(done, Range(failed))
      /\ failed = Without(done, Range(downloaded))

\* C14: a download that fails is not fatal to solve_question: the file is
\* left out of downloaded_files, the files after it are still gone through
\* in order, and the reasoning service is then asked for the answer.
C14_FailedDownloadNotFatal ==
  /\ [](pc \in {"download", "solve", "submit"} => FilesAccounted)
  /\ [](pc \in {"solve", "submit"} => files_left = << >>)
  /\ [][pc = "download"
          => /\ pc' \in {"download", "solve"}
             /\ thrown' = None
             /\ pc' = "solve" => inflight' = {"llm"}
             /\ Len(files_left') < Len(files_left) => inflight' # {}]_vars

\* the first of two files failed, the second was downloaded, and the answer
\* made of it is being submitted
C14_Witness ==
  /\ pc = "submit"
  /\ failed = <<"f1">>
  /\ downloaded = <<"f2">>
  /\ answer # NoAnswer

\* the tasks scheduled for the i-th request
TasksOf(i) == {j \in 1..Len(background_tasks) : background_tasks[j].of = i}

\* a body that holds no url or no secret
MissesField(body) ==
  body.json # "malformed" /\ ~({"secret", "url"} \subseteq DOMAIN body.d)

\* the endpoint's contract on the i-th request, but for the status of a
\* body that misses a field
EndpointContract(i) ==
  LET x == exchanges[i]
  IN  /\ x.body.json = "malformed" => x.status = 400
      /\ (Validates(x.body.d) /\ x.body.d["secret"] # SECRET_KEY) => x.status = 403
      /\ x.status # 200 => TasksOf(i) = {}
      /\ x.status = 200
           => /\ x.detail = "processing"
              /\ Cardinality(TasksOf(i)) = 1
              /\ \A j \in TasksOf(i) :
                   /\ background_tasks[j].quiz_url = x.body.d["url"]
                   /\ background_tasks[j].started => x.sent

\* C15: malformed JSON and a body without url or secret get 400, a wrong
\* secret gets 403, and none of these schedules a chain; an accepted request
\* gets "processing" and exactly one chain for its url, begun after the
\* response.
C15_EndpointSchedulesIffAccepted ==
  \A i \in 1..Len(exchanges) :
    /\ EndpointContract(i)
    /\ MissesField(exchanges[i].body) => exchanges[i].status = 400

\* every open page of a run is its own, and shows nothing but the blank
\* page or the run's quiz URL; the content a run has read is that of its
\* own quiz URL
PagesIsolated ==
  \A r \in Runs :
    /\ runs[r].page # NoPage
         => /\ runs[r].page \in DOMAIN browser
            /\ \A o \in Runs \ {r} : runs[o].page # runs[r].page
            /\ browser[runs[r].page] \in {"about:blank", runs[r].current_url}
    /\ runs[r].html \in {None, runs[r].current_url}

\* a step changes the state of one run at most, and what it writes to a
\* run's current_url, quiz_count and elapsed comes from that run alone
OwnChainState ==
  /\ \E r \in Runs : \A o \in Runs \ {r} : runs'[o] = runs[o]
  /\ \A r \in Runs :
       /\ runs'[r].quiz_count \in {runs[r].quiz_count, runs[r].quiz_count + 1}
       /\ runs'[r].elapsed # runs[r].elapsed
            => runs'[r].elapsed = wall_clock - runs[r].start_time
       /\ runs'[r].current_url # runs[r].current_url
            => (runs[r].pc = "idle" \/ runs'[r].current_url = runs[r].next_url)

\* C16: under every interleaving of two runs, each fetch_quiz_page call has
\* a page of its own, and a run's current_url, quiz_count and elapsed are
\* touched by that run alone.
C16_RunsIsolated == []PagesIsolated /\ [][OwnChainState]_vars

\* both runs have a page open at once, each showing its own quiz URL
C16_Witness ==
  /\ runs[1].pc = "content"
  /\ runs[2].pc = "content"
  /\ runs[1].page # runs[2].page
  /\ browser[runs[1].page] = runs[1].current_url
  /\ browser[runs[2].page] = runs[2].current_url
  /\ runs[1].current_url # runs[2].current_url
  /\ runs[1].quiz_count # runs[2].quiz_count
  /\ runs[1].elapsed # runs[2].elapsed

\* the page held the decode marker, the interpreter gave a submit URL, the
\* format number and the key answer, and the reasoning text ends with the
\* number 5; the submission is on its way
MarkerNumberFive ==
  /\ pc = "submit"
  /\ FindAllAtob(html_content) # << >>
  /\ Decoded(FirstMatch(FindAllAtob(html_content))).exc = None
  /\ parsed_info.isdict
  /\ TruthyT(Get(parsed_info.d, "submit_url", NoneT))
  /\ Get(parsed_info.d, "answer_format", None) = "number"
  /\ Get(parsed_info.d, "expected_answer_key", None) = "answer"
  /\ answer_response # << >>
  /\ Len(answer_response) > 1
  /\ answer_response[Len(answer_response)] = Digit(5)
  /\ answer_response[Len(answer_response) - 1].k \notin {"digit", "dot", "minus"}

\* C17: in that case the body posted holds the integer 5 as its answer
\* (and goes to the interpreter's submit URL); when this is the first
\* iteration and the judge answers {correct: true, url: null}, the chain
\* ends SUCCEEDED with 1 iteration and 1 submission counted, for good.
C17_EndToEnd ==
  /\ [](MarkerNumberFive
         => /\ payload["answer"] = JAnswer(AnInt(5))
            /\ payload["url"] = JStr(quiz_url)
            /\ submit_url = parsed_info.d["submit_url"])
  /\ [][/\ (MarkerNumberFive /\ quiz_count = 1 /\ pc' # "submit")
             => /\ calls'.submit = 1
                /\ calls'.single = 1
                /\ pc' = "decide"
        /\ (pc = "decide" /\ result = Tuple(TRUE, None, None))
             => (outcome' = "SUCCEEDED" /\ quiz_count' = quiz_count /\ calls' = calls)
        /\ outcome = "SUCCEEDED" => UNCHANGED <<outcome, quiz_count, calls>>]_vars

\* the end-to-end case at the moment of its submission, in the first
\* iteration
C17_Witness ==
  /\ MarkerNumberFive
  /\ quiz_count = 1
  /\ calls.submit = 1
  /\ payload["answer"] = JAnswer(AnInt(5))

TypeMatches(a, fmt) ==
  /\ fmt = "number" => a.t \in {"int", "float"}
  /\ fmt = "boolean" => a.t = "bool"
  /\ fmt = "json" => a.t = "dict"
  /\ fmt \in {"string", "base64_image"} => a.t = "str"

\* C19: the type of the answer of every submission matches the
\* answer_format; a number format whose response holds no numeric token
\* leads to no submission.
C19_TypeMatchesFormat ==
  pc = "submit" => TypeMatches(answer, Get(parsed_info.d, "answer_format", "string"))

\* C20: with format boolean, extract_answer returns True when the response
\* holds "true" or "yes" in any case, and False when it holds neither.
C20_BooleanRule ==
  (extract_pc = "returned" /\ given_format = "boolean")
    => /\ extracted.t = "bool"
       /\ extracted.b
            <=> \E i \in 1..Len(given_response) :
                  \/ /\ i + 3 <= Len(given_response)
                     /\ given_response[i].k \in {"t", "T"}
                     /\ given_response[i + 1].k = "r"
                     /\ given_response[i + 2].k = "u"
                     /\ given_response[i + 3].k = "e"
                  \/ /\ i + 2 <= Len(given_response)
                     /\ given_response[i].k = "y"
                     /\ given_response[i + 1].k = "e"
                     /\ given_response[i + 2].k = "s"

\* "True" was found, in upper case and not at the start of the response
C20_Witness ==
  /\ extract_pc = "returned"
  /\ given_format = "boolean"
  /\ given_response = <<Seg("prose"), Seg("T"), Seg("r"), Seg("u"), Seg("e")>>
  /\ extracted = ABool(TRUE)

\* the places of the decode markers of the markup given
MarkerPlaces == {i \in DOMAIN given_html : given_html[i].k = "atob"}

\* a literal that is base64 text throughout and encodes text
ValidLiteral(literal) == \A i \in DOMAIN literal : literal[i].k = "quad"

\* the text such a literal encodes
Encodes(literal) == [i \in DOMAIN literal |-> Run("text", literal[i].c, literal[i].n)]

\* the markup shows a container: an opening tag of one of the three with
\* its closing tag behind it
ShowsContainer ==
  \E i, j \in DOMAIN given_html :
    /\ i < j
    /\ given_html[i].k \in {"result", "question", "body"}
    /\ given_html[j].k = Closes(given_html[i].k)

\* C21: when the first decode marker of the markup wraps a valid encoded
\* payload, extract_question_from_html returns the text that payload
\* encodes, whatever containers and later markers the markup also holds.
C21_FirstMarkerDecoded ==
  (question_pc = "returned" /\ MarkerPlaces # {}
     /\ ValidLiteral(given_html[Min(MarkerPlaces)].p))
    => question = Encodes(given_html[Min(MarkerPlaces)].p)

\* a valid marker first, another marker and a container with a long text
\* behind it
C21_Witness ==
  /\ question_pc = "returned"
  /\ Cardinality(MarkerPlaces) = 2
  /\ ValidLiteral(given_html[Min(MarkerPlaces)].p)
  /\ given_html[Max(MarkerPlaces)].p # given_html[Min(MarkerPlaces)].p
  /\ ShowsContainer
  /\ question = <<Run("text", "a", 12)>>

\* C22: whatever the markup, extract_question_from_html returns a string
\* that is not empty.
C22_QuestionNeverEmpty ==
  question_pc = "returned" => Chars(question) > 0

\* no marker, or a first marker whose literal does not decode
NoDecodableMarker ==
  \/ MarkerPlaces = {}
  \/ Decoded(given_html[Min(MarkerPlaces)].p).exc # None

\* the numbers of the container patterns that match the markup given
MatchingPatterns ==
  {k \in DOMAIN text_patterns : Search(text_patterns[k], given_html) # <<0, 0>>}

\* the text between the tags of the first match of pattern number k, tags
\* stripped and white space collapsed
Recovered(k) ==
  LET match == Search(text_patterns[k], given_html)
  IN  Clean(SubSeq(given_html, match[1] + 1, match[2] - 1), FALSE, FALSE)

\* C23: without a decodable marker the first pattern that matches, in the
\* order result, question, body, decides: its recovered text is returned
\* when it has at least 10 characters; when it is shorter, or no pattern
\* matches, the first 2000 characters of the markup are returned, never
\* more than 2000 characters.
C23_FirstContainerDecides ==
  (question_pc = "returned" /\ NoDecodableMarker)
    => IF MatchingPatterns # {} /\ Chars(Recovered(Min(MatchingPatterns))) >= 10
         THEN question = Recovered(Min(MatchingPatterns))
       ELSE /\ question = Prefix(given_html, 2000)
            /\ Chars(question) <= 2000

\* the places of the response given that hold a brace
BracePlaces ==
  {i \in DOMAIN given_response : HasOpen(given_response[i]) \/ HasClose(given_response[i])}

\* the first brace of the response opens a well-formed JSON object: that
\* object is the first balanced {...} region
FirstRegionIsObject ==
  /\ BracePlaces # {}
  /\ given_response[Min(BracePlaces)].k = "obj"

\* C24: with format json, when the first balanced {...} region of the
\* response is a well-formed JSON object, extract_answer returns that
\* object whatever text and braces follow it, and parse_question's reading
\* of the same response returns it too; the string rule is for responses
\* whose first region does not parse.
C24_FirstBalancedRegion ==
  (extract_pc = "returned" /\ given_format = "json" /\ FirstRegionIsObject)
    => /\ extracted = ADict(given_response[Min(BracePlaces)].d)
       /\ ParseResponse(<< >>, given_response)
            = Returned(TRUE, given_response[Min(BracePlaces)].d)

\* C25: when every render takes time and every collaborator call comes
\* back, the chain reaches a terminal state and stays there, after at most
\* max_time + 2 iterations, even when the judge gives a next URL with
\* every verdict.
C25_ChainTerminates ==
  /\ [](quiz_count <= max_time + 2)
  /\ <>[](pc = "done")

\* the judge gave a next URL every time, and the clock ended the chain at
\* the top of its fifth iteration
C25_Witness ==
  /\ pc = "done"
  /\ outcome = "TIMED_OUT"
  /\ quiz_count = max_time + 2
  /\ calls.submit = max_time + 1

\* the runs whose call of fetch_quiz_page holds a page: it has opened its
\* page and has not yet returned or raised
Fetching == {r \in Runs : runs[r].pc \in {"goto", "content", "close"}}

\* C26: the open pages of the browser are exactly the pages of the calls
\* of fetch_quiz_page in progress, one each, whether the call goes on to
\* return or to raise; a run outside such a call holds no page, and once
\* every run has terminated no page is open.
C26_PagesClosed ==
  /\ Cardinality(DOMAIN browser) = Cardinality(Fetching)
  /\ DOMAIN browser = {runs[r].page : r \in Fetching}
  /\ \A r \in Runs \ Fetching : runs[r].page = NoPage
  /\ (\A r \in Runs : runs[r].pc = "done") => browser = EmptyDict

\* two fetches in progress, one of them on its way out after goto or
\* content raised
C26_Witness ==
  /\ Cardinality(DOMAIN browser) = 2
  /\ \E r \in Runs : runs[r].pc = "close" /\ runs[r].html = None
  /\ \E r \in Runs : runs[r].pc = "content"

\* the iteration at hand has rendered its quiz URL, had its question
\* interpreted and is being answered
ReadyToSubmit ==
  /\ pc = "solve"
  /\ quiz_url = current_url
  /\ html_content \in Htmls
  /\ question_text = Tokens(extract_question_from_html(html_content))
  /\ parsed_info.isdict
  /\ calls.render = calls.single
  /\ calls.results = calls.single - 1

\* C27: a submission is posted only by an iteration that has rendered its
\* quiz URL and had the question interpreted, at the moment its answer is
\* synthesized, for that URL and with that answer; an iteration
\* posts at most one, so the submissions never outnumber the iterations
\* that have ended (plus the one that is waiting for the judge), nor the
\* renders.
C27_OneSubmissionAfterPipeline ==
  /\ [](/\ calls.submit <= calls.render
        /\ calls.submit <= calls.results + (IF pc = "submit" THEN 1 ELSE 0))
  /\ [][calls'.submit # calls.submit
          => /\ ReadyToSubmit
             /\ calls'.submit = calls.submit + 1
             /\ pc' = "submit"
             /\ answer' = extract_answer(answer_response',
                                         Get(parsed_info.d, "answer_format", "string"))
             /\ quiz_url' = quiz_url]_vars

\* the second iteration has posted its submission, the second of the chain
C27_Witness ==
  /\ pc = "submit"
  /\ calls.submit = 2
  /\ calls.render = 2
  /\ calls.results = 1

\* C28: when the chain has terminated, quiz_count is the number of calls
\* of solve_single_quiz made, in every terminal state.
C28_CountIsPipelineRuns ==
  pc = "done" => quiz_count = calls.single

====
